---- MODULE Spec2Model ----
(***************************************************************************)
(* Causal masks and cached rotary frequency tables of the attention        *)
(* modules of deit/my_models.py (RAttention, MHSAttention, GroupAttention,  *)
(* GSAttention) and of the transformer assemblies that stack RAttention     *)
(* blocks (VisionTransformerRotate, VisionLLaMA).                           *)
(*                                                                         *)
(* One module instance is under test in a behaviour: Init is the state     *)
(* after its constructor ran, every action is one forward call on it.      *)
(* Tensors are modelled by their shape and their entries; indices are      *)
(* 0-based as in the source.                                               *)
(***************************************************************************)
EXTENDS Integers, Sequences, FiniteSets, TLC

VARIABLES module, call

vars == <<module, call>>

\* Largest side of a token grid (H, W of a forward call, sqrt(token_num)).
MaxSide == 4

Sides == 1..MaxSide

\* int(n ** 0.5)
int_sqrt(n) ==
    CHOOSE k \in 0..n : k * k <= n /\ (k + 1) * (k + 1) > n

(***************************************************************************)
(* Additive attention masks: entries are float(0.) or float('-inf').       *)
(***************************************************************************)
Zero == "0"

NegInf == "-inf"

\* torch.full((rows, cols), v)
full(rows, cols, v) ==
    [rows |-> rows, cols |-> cols,
     at |-> [i \in 0..(rows - 1) |-> [j \in 0..(cols - 1) |-> v]]]

\* A mask attribute that was never assigned / a call that adds no mask.
NoMask == [rows |-> 0, cols |-> 0, at |-> <<>>]

\* torch.triu(torch.ones(size, size), diagonal): 1 on and above the given
\* diagonal, 0 below it.
triu_ones(size, diagonal) ==
    [i \in 0..(size - 1) |->
        [j \in 0..(size - 1) |-> IF j - i >= diagonal THEN 1 ELSE 0]]

create_causal_mask_tril(size) ==
    [rows |-> size, cols |-> size,
     at |-> [i \in 0..(size - 1) |->
               [j \in 0..(size - 1) |-> IF i - j >= 1 THEN NegInf ELSE Zero]]]

create_causal_mask_diag0(size) ==
    LET mask == triu_ones(size, 0)
    IN  [rows |-> size, cols |-> size,
         at |-> [i \in 0..(size - 1) |->
                   [j \in 0..(size - 1) |->
                       IF mask[i][j] = 1 THEN NegInf ELSE Zero]]]

\* create_causal_mask(size): upper triangle above the diagonal filled with
\* -inf, the rest with 0.
create_causal_mask(size) ==
    LET mask == triu_ones(size, 1)
    IN  [rows |-> size, cols |-> size,
         at |-> [i \in 0..(size - 1) |->
                   [j \in 0..(size - 1) |->
                       IF mask[i][j] = 1 THEN NegInf ELSE Zero]]]

\* The visible_pos list the constructor of RAttention builds for the token at
\* (x, y): every row * H + col with row <= x and col <= y.
visible_pos_transposed(x, y, H) ==
    { col * H + row : row \in 0..x, col \in 0..y }

visible_pos(x, y, H) ==
    { row * H + col : row \in 0..x, col \in 0..y }

\* The 2D raster mask of RAttention.__init__ (casual_attn_2d), before the
\* class-token padding.  token_num is a perfect square, so that
\* H = token_num ** 0.5 is the exact grid side.
raster_mask_2d(token_num) ==
    LET H == int_sqrt(token_num)
        total_visible_pos ==
            [i \in 0..(token_num - 1) |-> visible_pos(i \div H, i % H, H)]
    IN  [rows |-> token_num, cols |-> token_num,
         at |-> [i \in 0..(token_num - 1) |->
                   [j \in 0..(token_num - 1) |->
                       IF j \in total_visible_pos[i] THEN Zero ELSE NegInf]]]

pad_cls_token_row_only(mask, token_num) ==
    [rows |-> token_num + 1, cols |-> token_num + 1,
     at |-> [i \in 0..token_num |->
               [j \in 0..token_num |->
                   IF i >= 1 /\ j >= 1 THEN mask.at[i - 1][j - 1]
                   ELSE IF i = 0 THEN Zero ELSE NegInf]]]

\* new_mask = torch.full((token_num + 1, token_num + 1), 0.);
\* new_mask[1:token_num + 1, 1:token_num + 1] = mask
pad_cls_token(mask, token_num) ==
    LET new_mask == full(token_num + 1, token_num + 1, Zero)
    IN  [new_mask EXCEPT !.at =
            [i \in 0..token_num |->
               [j \in 0..token_num |->
                   IF i >= 1 /\ j >= 1 THEN mask.at[i - 1][j - 1]
                   ELSE new_mask.at[i][j]]]]

(***************************************************************************)
(* Exact rationals <<numerator, denominator>> (denominator > 0, lowest     *)
(* terms) for the position scale and the coordinate bias.                  *)
(***************************************************************************)
RECURSIVE gcd(_, _)
gcd(a, b) == IF b = 0 THEN a ELSE gcd(b, a % b)

Abs(a) == IF a < 0 THEN -a ELSE a

Frac(n, d) ==
    LET g == gcd(Abs(n), d) IN <<n \div g, d \div g>>

FInt(k) == <<k, 1>>

FMul(a, b) == Frac(a[1] * b[1], a[2] * b[2])

FAdd(a, b) == Frac(a[1] * b[2] + b[1] * a[2], a[2] * b[2])

\* int(f) of a non-negative rational.
FFloor(a) == a[1] \div a[2]

(***************************************************************************)
(* Frequency tables.  An entry torch.polar(1, pos * theta ** -(k / dim)) is *)
(* kept as its position, exponent and base; entries that are equal as      *)
(* numbers (position 0, or exponent 0 under different bases) are equal     *)
(* here.                                                                   *)
(***************************************************************************)
polar(pos, k, dim, theta) ==
    IF pos[1] = 0 THEN [pos |-> FInt(0), exp |-> FInt(0), theta |-> 1]
    ELSE IF k = 0 THEN [pos |-> pos, exp |-> FInt(0), theta |-> 1]
    ELSE [pos |-> pos, exp |-> Frac(k, dim), theta |-> theta]

\* self.freqs_cis = None
NoneTable == [kind |-> "none", rows |-> 0, chans |-> 0, at |-> <<>>]

\* The call raised instead of returning a table.
RaisedTable == [kind |-> "raised", rows |-> 0, chans |-> 0, at |-> <<>>]

\* precompute_freqs_cis(dim, end, theta, scale): row t, channel j is
\* polar(1, t * scale * theta ** -(2j / dim)) for the dim // 2 frequencies.
precompute_freqs_cis(dim, end, theta, scale) ==
    [kind |-> "table", rows |-> end, chans |-> dim \div 2,
     at |-> [t \in 0..(end - 1) |->
               [j \in 0..((dim \div 2) - 1) |->
                   polar(FMul(FInt(t), scale), 2 * j, dim, theta)]]]

\* freqs_cis[0: n, :]
rows_upto(freqs_cis, n) ==
    LET rows == IF n < freqs_cis.rows THEN n ELSE freqs_cis.rows
    IN  [freqs_cis EXCEPT !.rows = rows,
                          !.at = [r \in 0..(rows - 1) |-> freqs_cis.at[r]]]

\* torch.cat([x_cis, y_cis], dim=-1): the x entries of all frequencies, then
\* the y entries.
cat_reshape_xy_halves(x_pos, y_pos, rows, dim, theta) ==
    LET nf == dim \div 4
    IN  IF rows = 0 THEN RaisedTable ELSE
        [kind |-> "table", rows |-> rows, chans |-> 2 * nf,
         at |-> [r \in 0..(rows - 1) |->
                   [c \in 0..(2 * nf - 1) |->
                       IF c < nf
                       THEN polar(x_pos[r], 4 * c, dim, theta)
                       ELSE polar(y_pos[r], 4 * (c - nf), dim, theta)]]]

\* torch.cat([x_cis.unsqueeze(-1), y_cis.unsqueeze(-1)], -1).reshape(rows, -1)
\* for x_pos, y_pos over rows positions and dim // 4 frequencies
\* theta ** -(4j / dim): channel 2j is the x entry and channel 2j + 1 the y
\* entry of frequency j.  With dim < 4 there is no frequency and the table
\* has rows rows of 0 channels; reshape(0, -1) raises (the size of the
\* unspecified axis is ambiguous).
cat_reshape(x_pos, y_pos, rows, dim, theta) ==
    LET nf == dim \div 4
    IN  IF rows = 0 THEN RaisedTable ELSE
        [kind |-> "table", rows |-> rows, chans |-> 2 * nf,
         at |-> [r \in 0..(rows - 1) |->
                   [c \in 0..(2 * nf - 1) |->
                       IF c % 2 = 0
                       THEN polar(x_pos[r], 4 * (c \div 2), dim, theta)
                       ELSE polar(y_pos[r], 4 * (c \div 2), dim, theta)]]]

\* precompute_freqs_cis_2d(dim, end, theta, scale, use_cls, cls_pos)
precompute_freqs_cis_2d(dim, end, theta, scale, use_cls, cls_pos) ==
    LET H == int_sqrt(end)
        first == IF use_cls THEN -1 ELSE 0
        rows == end - first
        flat_patch_pos == [r \in 0..(rows - 1) |-> first + r]
        x_pos == [r \in 0..(rows - 1) |->
                    IF use_cls /\ cls_pos # -1 /\ r = 0 THEN FInt(cls_pos)
                    ELSE FMul(FInt(flat_patch_pos[r] % H), scale)]
        y_pos == [r \in 0..(rows - 1) |->
                    IF use_cls /\ cls_pos # -1 /\ r = 0 THEN FInt(cls_pos)
                    ELSE FMul(FInt(flat_patch_pos[r] \div H), scale)]
    IN  cat_reshape(x_pos, y_pos, IF use_cls THEN end + 1 ELSE end, dim, theta)

\* precompute_freqs_cis_2d_general(dim, end, step, W, bias, theta, scale,
\* use_cls)
precompute_freqs_cis_2d_general(dim, end, step, W, bias, theta, scale, use_cls) ==
    LET Wd == IF W = 0 THEN int_sqrt(end) ELSE W
        first == IF use_cls THEN -1 ELSE 0
        rows == end - first
        flat_patch_pos == [r \in 0..(rows - 1) |-> first + r]
        x_pos == [r \in 0..(rows - 1) |->
                    FMul(scale, FAdd(bias, FInt((flat_patch_pos[r] % Wd) * step)))]
        y_pos == [r \in 0..(rows - 1) |->
                    FMul(scale, FAdd(bias, FInt((flat_patch_pos[r] \div Wd) * step)))]
    IN  cat_reshape(x_pos, y_pos, IF use_cls THEN end + 1 ELSE end, dim, theta)

\* reshape_for_broadcast(freqs_cis, x) for x of complex shape
\* (.., positions, .., width): the view of the table succeeds when the table
\* has as many elements as the target shape, whose position axis is axis 1
\* of x and whose other kept axes are those the branch keeps.
reshape_for_broadcast_ok(freqs_cis, positions, others, width) ==
    IF freqs_cis.chans = width
    THEN freqs_cis.rows * freqs_cis.chans = positions * width
    ELSE freqs_cis.rows * freqs_cis.chans = positions * others * width

(***************************************************************************)
(* RAttention                                                              *)
(***************************************************************************)
\* RAttention.__init__: self.casual_mask is assigned in the 2D branch, and in
\* the 1D branch only under use_cls_token; otherwise the attribute does not
\* exist (mask_set = FALSE).
RAttention_init(token_num, casual_attn_1d, casual_attn_2d, use_cls_token) ==
    LET base == [class |-> "RAttention", token_num |-> token_num,
                 casual_attn_1d |-> casual_attn_1d,
                 casual_attn_2d |-> casual_attn_2d,
                 use_cls_token |-> use_cls_token]
    IN  IF casual_attn_2d
        THEN LET m == raster_mask_2d(token_num)
             IN  base @@ [mask_set |-> TRUE,
                          casual_mask |->
                            IF use_cls_token THEN pad_cls_token(m, token_num)
                            ELSE m]
        ELSE IF casual_attn_1d
        THEN LET casual_mask == create_causal_mask(token_num)
             IN  IF use_cls_token
                 THEN base @@ [mask_set |-> TRUE,
                               casual_mask |->
                                 pad_cls_token(casual_mask, token_num)]
                 ELSE base @@ [mask_set |-> FALSE, casual_mask |-> NoMask]
        ELSE base @@ [mask_set |-> FALSE, casual_mask |-> NoMask]

\* Whether scores of shape (.., queries, keys) + mask broadcast to the
\* shape of the scores, so that the product with v of shape (.., keys, Hc)
\* is defined.
broadcasts(queries, keys, mask) ==
    /\ mask.rows = queries \/ mask.rows = 1
    /\ mask.cols = keys \/ mask.cols = 1

\* The record of a forward call: its arguments, how it ended, the numbers of
\* queries and keys of its score matrix, the mask it added to the scores and
\* the frequency tables it rotated queries and keys with.
BaseCall(op, H, W, N) ==
    [op |-> op, H |-> H, W |-> W, N |-> N, queries |-> 0, keys |-> 0,
     result |-> "ok", masked |-> FALSE, mask |-> NoMask,
     rotated |-> FALSE, q_freqs |-> NoneTable, k_freqs |-> NoneTable]

NoCall == [BaseCall("none", 0, 0, 0) EXCEPT !.result = "none"]

Raised(c, error) == [c EXCEPT !.result = error]

\* RAttention.forward on N tokens: the outcome of the call and the mask it
\* adds to the scores.
RAttention_forward(self, N) ==
    LET c == [BaseCall("RAttention.forward", 0, 0, N) EXCEPT
                 !.queries = N, !.keys = N]
    IN  IF self.casual_attn_2d \/ self.casual_attn_1d
        THEN IF ~self.mask_set
             THEN Raised(c, "AttributeError")
             ELSE IF ~broadcasts(N, N, self.casual_mask)
             THEN Raised(c, "RuntimeError")
             ELSE [c EXCEPT !.masked = TRUE, !.mask = self.casual_mask]
        ELSE c

(***************************************************************************)
(* Attention modules of the pyramid blocks: forward(x, H, W) on the        *)
(* N = H * W tokens of an H x W patch grid.  Each forward operator gives   *)
(* the module after the call (its caches are assigned before a later step  *)
(* of the same call may raise) and the record of the call.                 *)
(***************************************************************************)
\* theta: float = 10000.0
DefaultTheta == 10000

\* base_size=14
base_size == 14

\* int(self.dim // self.num_heads * self.rpe_ratio), the rotary width the
\* tables are built for.
table_dim(self) ==
    FFloor(FMul(FInt(self.dim \div self.num_heads), self.rpe_ratio))

\* int(self.rpe_ratio * C // self.num_heads), the width forward rotates.
forward_rpe_dim(self) ==
    FFloor(Frac(self.rpe_ratio[1] * self.dim, self.rpe_ratio[2] * self.num_heads))

MHSAttention_init(dim, num_heads, rpe_ratio, use_cls_token, casual_attn) ==
    [class |-> "MHSAttention", dim |-> dim, num_heads |-> num_heads,
     rpe_ratio |-> rpe_ratio, use_cls_token |-> use_cls_token,
     casual_attn |-> casual_attn, freqs_cis |-> NoneTable]

\* The lazy build of self.freqs_cis in MHSAttention.forward.
MHSAttention_freqs_cis(self, N) ==
    LET fresh == precompute_freqs_cis_2d(table_dim(self), N, DefaultTheta,
                                         FInt(1), self.use_cls_token, -1)
    IN  IF self.freqs_cis.kind = "none" THEN fresh
        ELSE IF N # self.freqs_cis.rows THEN fresh
        ELSE self.freqs_cis

\* q.reshape(B * self.num_heads, -1, C // self.num_heads) of q laid out as
\* (B, N, num_heads, hc): the index on axis 1, the axis
\* reshape_for_broadcast aligns with the rows of the table, of the vector
\* of token n and head h.
MHSAttention_axis1(n, h, N, num_heads) == (n * num_heads + h) % N

MHSAttention_forward(self, H, W) ==
    LET N == H * W
        after == [self EXCEPT !.freqs_cis = MHSAttention_freqs_cis(self, N)]
        rpe_dim == forward_rpe_dim(self)
        c == [BaseCall("MHSAttention.forward", H, W, N) EXCEPT
                 !.queries = N, !.keys = N]
             @@ [row_of |->
                    [n \in 0..(N - 1) |->
                        [h \in 0..(self.num_heads - 1) |->
                            MHSAttention_axis1(n, h, N, self.num_heads)]]]
        rot == IF rpe_dim > 0
               THEN [c EXCEPT !.rotated = TRUE,
                              !.q_freqs = after.freqs_cis,
                              !.k_freqs = after.freqs_cis]
               ELSE c
    IN  IF rpe_dim > 0
           /\ ~reshape_for_broadcast_ok(after.freqs_cis, N, 1, rpe_dim \div 2)
        THEN [self |-> after, call |-> Raised(c, "RuntimeError")]
        ELSE IF self.casual_attn
        THEN [self |-> after,
              call |-> [rot EXCEPT !.masked = TRUE,
                                   !.mask = create_causal_mask(H * W)]]
        ELSE [self |-> after, call |-> rot]

GroupAttention_init(dim, num_heads, rpe_ratio, ws, use_cls_token, casual_attn) ==
    [class |-> "GroupAttention", dim |-> dim, num_heads |-> num_heads,
     rpe_ratio |-> rpe_ratio, ws |-> ws, use_cls_token |-> use_cls_token,
     casual_attn |-> casual_attn, freqs_cis |-> NoneTable]

\* The lazy build of self.freqs_cis in GroupAttention.forward.
GroupAttention_freqs_cis(self, N) ==
    LET fresh == precompute_freqs_cis_2d(table_dim(self), self.ws * self.ws,
                                         DefaultTheta, FInt(1),
                                         self.use_cls_token, -1)
    IN  IF self.freqs_cis.kind = "none" THEN fresh
        ELSE IF N # self.freqs_cis.rows THEN fresh
        ELSE self.freqs_cis

\* The grid position of a padding token.
Pad == <<-1, -1>>

\* x.view(B, H, W, C) after F.pad(x, (0, 0, pad_l, pad_r, pad_t, pad_b)):
\* for each position of the Hp x Wp grid the input position it holds.
padded_grid(H, W, pad_r, pad_b) ==
    [row \in 0..(H + pad_b - 1) |->
        [col \in 0..(W + pad_r - 1) |->
            IF row < H /\ col < W THEN <<row, col>> ELSE Pad]]

\* x.reshape(B, _h, ws, _w, ws, C).transpose(2, 3) read as
\* (B, _h * _w, ws * ws, ..): the token at slot p of window g.
window_partition(x, Hp, Wp, ws) ==
    LET h_ == Hp \div ws
        w_ == Wp \div ws
    IN  [g \in 0..(h_ * w_ - 1) |->
            [p \in 0..(ws * ws - 1) |->
                LET hi == g \div w_
                    wi == g % w_
                    r == p \div ws
                    c == p % ws
                    flat == ((hi * ws + r) * w_ + wi) * ws + c
                IN  x[flat \div Wp][flat % Wp]]]

\* Reads the window tensor as (B, _h * ws, _w * ws, C) without the
\* transpose.
window_reverse_no_transpose(attn, Hp, Wp, ws) ==
    [row \in 0..(Hp - 1) |->
        [col \in 0..(Wp - 1) |->
            LET flat == row * Wp + col
            IN  attn[flat \div (ws * ws)][flat % (ws * ws)]]]

\* attn.reshape(B, _h, _w, ws, ws, C).transpose(2, 3).reshape(B, _h * ws,
\* _w * ws, C): the window slot each grid position is read from.
window_reverse(attn, Hp, Wp, ws) ==
    LET w_ == Wp \div ws
    IN  [row \in 0..(Hp - 1) |->
            [col \in 0..(Wp - 1) |->
                LET flat == row * Wp + col
                    c == flat % ws
                    wi == (flat \div ws) % w_
                    r == (flat \div (ws * w_)) % ws
                    hi == flat \div (ws * w_ * ws)
                IN  attn[hi * w_ + wi][r * ws + c]]]

\* x[:, :H, :W, :].contiguous() when there is padding, then
\* x.reshape(B, N, C): the grid position output token n is read from.
crop_reshape(x, H, W, Wp, pad_r, pad_b) ==
    [n \in 0..(H * W - 1) |->
        IF pad_r > 0 \/ pad_b > 0 THEN x[n \div W][n % W]
        ELSE x[n \div Wp][n % Wp]]

GroupAttention_forward(self, H, W) ==
    LET N == H * W
        ws == self.ws
        after == [self EXCEPT !.freqs_cis = GroupAttention_freqs_cis(self, N)]
        pad_r == (ws - (W % ws)) % ws
        pad_b == (ws - (H % ws)) % ws
        Hp == H + pad_b
        Wp == W + pad_r
        h_ == Hp \div ws
        w_ == Wp \div ws
        rpe_dim == forward_rpe_dim(self)
        windows == window_partition(padded_grid(H, W, pad_r, pad_b),
                                    Hp, Wp, ws)
        \* each slot of the attention output is the one computed for the
        \* query token of that slot
        out == crop_reshape(window_reverse(windows, Hp, Wp, ws),
                            H, W, Wp, pad_r, pad_b)
        c == [BaseCall("GroupAttention.forward", H, W, N) EXCEPT
                 !.queries = ws * ws, !.keys = ws * ws]
             @@ [Hp |-> Hp, Wp |-> Wp, windows |-> windows, out |-> out]
        rot == IF rpe_dim > 0
               THEN [c EXCEPT !.rotated = TRUE,
                              !.q_freqs = after.freqs_cis,
                              !.k_freqs = after.freqs_cis]
               ELSE c
    IN  IF rpe_dim > 0
           /\ ~reshape_for_broadcast_ok(after.freqs_cis, ws * ws,
                                        h_ * w_ * self.num_heads,
                                        rpe_dim \div 2)
        THEN [self |-> after, call |-> Raised(c, "RuntimeError")]
        ELSE IF self.casual_attn
        THEN [self |-> after,
              call |-> [rot EXCEPT !.masked = TRUE,
                                   !.mask = create_causal_mask(ws * ws)]]
        ELSE [self |-> after, call |-> rot]

(***************************************************************************)
(* GSAttention                                                             *)
(***************************************************************************)
\* use_ntk is False (off) or the factor theta is multiplied by.
NtkOff == [is_false |-> TRUE, value |-> 0]

Ntk(value) == [is_false |-> FALSE, value |-> value]

GSAttention_init(dim, num_heads, rpe_ratio, sr_ratio, use_cls_token, auto_scale, use_ntk, casual_attn) ==
    [class |-> "GSAttention", dim |-> dim, num_heads |-> num_heads,
     rpe_ratio |-> rpe_ratio, sr_ratio |-> sr_ratio,
     use_cls_token |-> use_cls_token, auto_scale |-> auto_scale,
     use_ntk |-> use_ntk, casual_attn |-> casual_attn,
     q_freqs_cis |-> NoneTable, k_freqs_cis |-> NoneTable]

\* scale of GSAttention.forward: base_size / H under auto_scale, 1.0
\* otherwise and whenever use_ntk is not False.
GSAttention_scale(self, H) ==
    IF ~self.use_ntk.is_false THEN FInt(1)
    ELSE IF self.auto_scale THEN Frac(base_size, H)
    ELSE FInt(1)

\* theta of GSAttention.forward.
GSAttention_theta(self) ==
    IF ~self.use_ntk.is_false THEN DefaultTheta * self.use_ntk.value
    ELSE DefaultTheta

\* The block coordinates GSAttention.forward computes for query i:
\* x_pos = i // (sr_ratio * H) and, from the transposed flat index
\* i // H + (i % H) * H, y_pos = (i // H + (i % H) * H) // (sr_ratio * H).
gs_x_pos(i, H, sr_ratio) == i \div (sr_ratio * H)

gs_y_pos_untransposed(i, H, sr_ratio) == i \div (sr_ratio * H)

gs_y_pos(i, H, sr_ratio) ==
    LET origin_x_pos == i \div H
        origin_y_pos == i % H
        flat_patch_pos_for_y == origin_x_pos + origin_y_pos * H
    IN  flat_patch_pos_for_y \div (sr_ratio * H)

token_visible_num_no_self(H, W, sr_ratio) ==
    [i \in 0..(H * W - 1) |->
        gs_x_pos(i, H, sr_ratio) * sr_ratio + gs_y_pos(i, H, sr_ratio)]

\* token_visible_num = x_pos * sr_ratio + y_pos + 1 of the vectorised code.
token_visible_num(H, W, sr_ratio) ==
    [i \in 0..(H * W - 1) |->
        gs_x_pos(i, H, sr_ratio) * sr_ratio + gs_y_pos(i, H, sr_ratio) + 1]

\* The grouped causal mask: (H * W, N_reduce), 0 where
\* col_indices < token_visible_num.
grouped_causal_mask(H, W, sr_ratio, N_reduce) ==
    LET tvn == token_visible_num(H, W, sr_ratio)
    IN  [rows |-> H * W, cols |-> N_reduce,
         at |-> [i \in 0..(H * W - 1) |->
                   [m \in 0..(N_reduce - 1) |->
                       IF m < tvn[i] THEN Zero ELSE NegInf]]]

\* The per-query loop the vectorised code replaced (kept as a comment in
\* GSAttention.forward and in the test script): for each query, zip its
\* origin_x_pos and origin_y_pos into flat_patch_pos_for_y, then
\* causal_mask[i, :int(token_visible_num[i])] = 0.
reference_token_visible_num(H, W, sr_ratio) ==
    LET flat_patch_pos == [i \in 0..(H * W - 1) |-> i]
        x_pos == [i \in 0..(H * W - 1) |-> flat_patch_pos[i] \div (sr_ratio * H)]
        pos == [i \in 0..(H * W - 1) |->
                  <<flat_patch_pos[i] \div H, flat_patch_pos[i] % H>>]
        flat_patch_pos_for_y ==
            [i \in 0..(H * W - 1) |-> pos[i][1] + pos[i][2] * H]
        y_pos == [i \in 0..(H * W - 1) |->
                    flat_patch_pos_for_y[i] \div (sr_ratio * H)]
    IN  [i \in 0..(H * W - 1) |-> x_pos[i] * sr_ratio + y_pos[i] + 1]

\* The lazy build of self.q_freqs_cis; kind "raised" when the else branch
\* reads .shape of None.
GSAttention_q_freqs_cis(self, H, W) ==
    LET N == H * W
        rpe_dim == table_dim(self)
        fresh == precompute_freqs_cis_2d_general(
                     rpe_dim, N, 1, W, FInt(0), GSAttention_theta(self),
                     GSAttention_scale(self, H), self.use_cls_token)
    IN  IF self.q_freqs_cis.kind = "none" /\ rpe_dim > 0 THEN fresh
        ELSE IF self.q_freqs_cis.kind = "none" THEN RaisedTable
        ELSE IF N # self.q_freqs_cis.rows THEN fresh
        ELSE self.q_freqs_cis

\* The lazy build of self.k_freqs_cis (theta is not passed: the default).
GSAttention_k_freqs_cis(self, H, W) ==
    LET N == H * W
        sr == self.sr_ratio
        N_reduce == ((H * W) \div sr) \div sr
        rpe_dim == table_dim(self)
        fresh == precompute_freqs_cis_2d_general(
                     rpe_dim, N_reduce, sr, W, Frac(sr - 1, sr), DefaultTheta,
                     GSAttention_scale(self, H), self.use_cls_token)
    IN  IF self.k_freqs_cis.kind = "none" /\ rpe_dim > 0 THEN fresh
        ELSE IF self.k_freqs_cis.kind = "none" THEN RaisedTable
        ELSE IF N \div (sr * sr) # self.k_freqs_cis.rows THEN fresh
        ELSE self.k_freqs_cis

GSAttention_forward(self, H, W) ==
    LET N == H * W
        sr == self.sr_ratio
        N_reduce == ((H * W) \div sr) \div sr
        rpe_dim == table_dim(self)
        q == GSAttention_q_freqs_cis(self, H, W)
        k == GSAttention_k_freqs_cis(self, H, W)
        after_q == [self EXCEPT !.q_freqs_cis = q]
        after_k == [after_q EXCEPT !.k_freqs_cis = k]
        \* keys after self.sr (Conv2d, kernel = stride = sr_ratio)
        M == IF sr > 1 THEN (H \div sr) * (W \div sr) ELSE N
        c == [BaseCall("GSAttention.forward", H, W, N) EXCEPT
                 !.queries = N, !.keys = M]
        rot == IF rpe_dim > 0
               THEN [c EXCEPT !.rotated = TRUE, !.q_freqs = q, !.k_freqs = k]
               ELSE c
        causal_mask == grouped_causal_mask(H, W, sr, N_reduce)
    IN  IF q.kind = "raised"
        THEN [self |-> self, call |-> Raised(c, "AttributeError")]
        ELSE IF k.kind = "raised"
        THEN [self |-> after_q,
              call |-> Raised(c, IF self.k_freqs_cis.kind = "none" /\ rpe_dim = 0
                                 THEN "AttributeError" ELSE "RuntimeError")]
        ELSE IF sr > 1 /\ (H < sr \/ W < sr)
        THEN [self |-> after_k, call |-> Raised(c, "RuntimeError")]
        ELSE IF rpe_dim > 0
                /\ ~(/\ reshape_for_broadcast_ok(q, N, self.num_heads,
                                                 rpe_dim \div 2)
                     /\ reshape_for_broadcast_ok(k, M, self.num_heads,
                                                 rpe_dim \div 2))
        THEN [self |-> after_k, call |-> Raised(c, "RuntimeError")]
        ELSE IF self.casual_attn
        THEN IF broadcasts(N, M, causal_mask)
             THEN [self |-> after_k,
                   call |-> [rot EXCEPT !.masked = TRUE, !.mask = causal_mask]]
             ELSE [self |-> after_k, call |-> Raised(c, "RuntimeError")]
        ELSE [self |-> after_k, call |-> rot]

\* Token counts of square grids, the token_num a 2D layout is built for.
SquareTokenNums == { s * s : s \in Sides }

(***************************************************************************)
(* VisionTransformerRotate and VisionLLaMA: a patch embedding followed by  *)
(* blocks that all hold an RAttention built with the same arguments.       *)
(***************************************************************************)
\* patch_size of the models under test.
patch_size == 16

\* num_patches of the patch embedding (ConvPatchEmbed.__init__ computes it
\* as the base class' PatchEmbed does).
num_patches(img_size, patch) == (img_size \div patch) * (img_size \div patch)

\* VisionTransformerRotate.__init__ (VisionLLaMA.__init__ passes its flags on
\* to it and keeps auto_scale): self.token_num, the RAttention of every
\* block, self.scale = scale (1.0) and self.freqs_cis = None.
VisionTransformerRotate_init(class, img_size, embed_dim, depth, num_heads, use_cls_token, auto_scale, casual_attn_1d, casual_attn_2d) ==
    LET token_num == (img_size * img_size) \div (patch_size * patch_size)
    IN  [class |-> class, img_size |-> img_size,
         use_cls_token |-> use_cls_token, token_num |-> token_num,
         num_patches |-> num_patches(img_size, patch_size),
         embed_dim |-> embed_dim, depth |-> depth, num_heads |-> num_heads,
         auto_scale |-> class = "VisionLLaMA" /\ auto_scale,
         scale |-> FInt(1), freqs_cis |-> NoneTable,
         blocks |-> RAttention_init(token_num, casual_attn_1d,
                                    casual_attn_2d, use_cls_token)]

\* The number of tokens forward_features hands to the blocks:
\* VisionTransformerRotate never concatenates the class token, VisionLLaMA
\* does under use_cls_token.
tokens_fed(self) ==
    IF self.class = "VisionLLaMA" /\ self.use_cls_token
    THEN self.num_patches + 1
    ELSE self.num_patches

\* Accepts every image size.
PatchEmbed_accepts_any(self, img) == TRUE

\* The size assertion of the patch embedding the models inherit from the
\* base class (timm's PatchEmbed; ConvPatchEmbed.forward is a copy of its
\* forward): H == self.img_size[0] and W == self.img_size[1].
PatchEmbed_accepts(self, img) == img = self.img_size

\* 224 of scale = 224 / H in VisionLLaMA.forward_features.
auto_scale_base == 224

\* The table forward_features builds when self.freqs_cis is None, for a
\* batch of img x img images: VisionTransformerRotate the 1D table of
\* num_patches * 2 rows under self.scale, VisionLLaMA (share_rpe, rpe_ratio
\* 1.0, cls_pos -1) the 2D table of num_patches rows under scale 224 / H
\* with auto_scale and 1.0 without.
model_freqs_cis(self, img) ==
    LET head_dim == self.embed_dim \div self.num_heads
        scale == IF self.auto_scale THEN Frac(auto_scale_base, img)
                 ELSE FInt(1)
    IN  IF self.class = "VisionLLaMA"
        THEN precompute_freqs_cis_2d(head_dim, self.num_patches, DefaultTheta,
                                     scale, self.use_cls_token, -1)
        ELSE precompute_freqs_cis(head_dim, self.num_patches * 2,
                                  DefaultTheta, self.scale)

\* One block on the tokens: x = x + attn(norm1(x)); x = x + mlp(norm2(x)),
\* the attention being softmax(scores + mask) @ v.  deps[i] is the set of
\* input tokens the representation of token i depends on: after the
\* block, token i depends on what it did and on what every token its row
\* of the mask leaves visible did (all tokens without a mask).
block_deps(masked, mask, deps) ==
    [i \in DOMAIN deps |->
        UNION { deps[j] : j \in { k \in DOMAIN deps :
                                     \/ k = i
                                     \/ ~masked
                                     \/ mask.at[i][k] = Zero } }]

\* for blk in self.blocks: x = blk(x, freqs_cis)
RECURSIVE stack_deps(_, _, _, _)
stack_deps(masked, mask, deps, depth) ==
    IF depth = 0 THEN deps
    ELSE stack_deps(masked, mask, block_deps(masked, mask, deps), depth - 1)

\* forward_features on a batch of img x img images: the patch embedding
\* asserts the configured image size, self.freqs_cis is built if it is
\* None, then every block runs RAttention.forward on the tokens with the
\* first rows of the table (rotating all of the head width, the blocks'
\* rpe_ratio being 1.0).
forward_features(self, img) ==
    LET op == IF self.class = "VisionLLaMA"
              THEN "VisionLLaMA.forward_features"
              ELSE "VisionTransformerRotate.forward_features"
        after == IF self.freqs_cis.kind = "none"
                 THEN [self EXCEPT !.freqs_cis = model_freqs_cis(self, img)]
                 ELSE self
        n_rows == IF self.class = "VisionLLaMA" /\ self.use_cls_token
                  THEN self.num_patches + 1 ELSE self.num_patches
        freqs_cis == rows_upto(after.freqs_cis, n_rows)
        N == tokens_fed(self)
        rpe_dim == forward_rpe_dim([dim |-> self.embed_dim,
                                    num_heads |-> self.num_heads,
                                    rpe_ratio |-> FInt(1)])
        blk == [RAttention_forward(self.blocks, N) EXCEPT
                   !.op = op, !.H = img, !.W = img]
    IN  IF ~PatchEmbed_accepts(self, img)
        THEN [self |-> self,
              call |-> Raised(BaseCall(op, img, img, 0), "AssertionError")]
        ELSE IF ~reshape_for_broadcast_ok(freqs_cis, N, self.num_heads,
                                          rpe_dim \div 2)
        THEN [self |-> after,
              call |-> Raised([BaseCall(op, img, img, N) EXCEPT
                                  !.queries = N, !.keys = N], "RuntimeError")]
        ELSE [self |-> after,
              call |-> IF blk.result = "ok"
                       THEN [blk EXCEPT !.rotated = TRUE,
                                        !.q_freqs = freqs_cis,
                                        !.k_freqs = freqs_cis]
                            @@ [deps |-> stack_deps(
                                    blk.masked, blk.mask,
                                    [i \in 0..(N - 1) |-> {i}], self.depth)]
                       ELSE blk]

\* theta * ((factor * scale) - (factor - 1)) ** (embed_dim / (embed_dim - 2))
\* of reset_ntk_scale, for arguments that make the power a whole number.
ntk_theta(scale, factor, head_dim) ==
    LET x == factor * scale - (factor - 1)
        e == Frac(head_dim, head_dim - 2)
        y == CHOOSE y \in 1..(x * x) : y ^ e[2] = x ^ e[1]
    IN  DefaultTheta * y

\* reset_ntk_scale(scale, factor): self.scale = scale, and the table is
\* rebuilt under the rescaled theta and scale 1.0 only if one exists.
reset_ntk_scale(self, scale, factor) ==
    LET head_dim == self.embed_dim \div self.num_heads
        theta == ntk_theta(scale, factor, head_dim)
        scaled == [self EXCEPT !.scale = FInt(scale)]
    IN  IF self.freqs_cis.kind # "none"
        THEN [scaled EXCEPT !.freqs_cis =
                 precompute_freqs_cis(head_dim, self.num_patches * 2, theta,
                                      FInt(1))]
        ELSE scaled

\* reset_scale(scale): self.scale = scale; VisionTransformerRotate rebuilds
\* its table under the new scale if one exists, VisionLLaMA builds one
\* only if none exists, and under the default scale.
reset_scale(self, scale) ==
    LET head_dim == self.embed_dim \div self.num_heads
        scaled == [self EXCEPT !.scale = scale]
    IN  IF self.class = "VisionLLaMA"
        THEN IF self.freqs_cis.kind = "none"
             THEN [scaled EXCEPT !.freqs_cis =
                      precompute_freqs_cis_2d(head_dim, self.num_patches,
                                              DefaultTheta, FInt(1),
                                              self.use_cls_token, -1)]
             ELSE scaled
        ELSE IF self.freqs_cis.kind # "none"
        THEN [scaled EXCEPT !.freqs_cis =
                 precompute_freqs_cis(head_dim, self.num_patches * 2,
                                      DefaultTheta, scale)]
        ELSE scaled

\* Embedding width and head count of the modules under test (head width 8).
Widths == { <<16, 2>> }

\* rpe_ratio: no rotation, half of the head width, all of it.
RpeRatios == { FInt(0), Frac(1, 2), FInt(1) }

\* Largest window side and spatial-reduction ratio.
MaxRatio == 2

Ratios == 1..MaxRatio

InitRAttention ==
    \E token_num \in SquareTokenNums, c1 \in BOOLEAN, c2 \in BOOLEAN,
       use_cls \in BOOLEAN :
        module = RAttention_init(token_num, c1, c2, use_cls)

InitMHSAttention ==
    \E d \in Widths, r \in RpeRatios, use_cls \in BOOLEAN, casual \in BOOLEAN :
        module = MHSAttention_init(d[1], d[2], r, use_cls, casual)

InitGroupAttention ==
    \E d \in Widths, r \in RpeRatios, ws \in Ratios, use_cls \in BOOLEAN,
       casual \in BOOLEAN :
        module = GroupAttention_init(d[1], d[2], r, ws, use_cls, casual)

InitGSAttention ==
    \E d \in Widths, r \in RpeRatios, sr \in Ratios, use_cls \in BOOLEAN,
       auto_scale \in BOOLEAN, use_ntk \in {NtkOff, Ntk(2)},
       casual \in BOOLEAN :
        module = GSAttention_init(d[1], d[2], r, sr, use_cls, auto_scale,
                                  use_ntk, casual)

\* Image sizes: multiples of the patch size, up to MaxSide patches a side.
ImgSizes == { patch_size * s : s \in Sides }

Models == {"VisionTransformerRotate", "VisionLLaMA"}

\* (scale, factor) of reset_ntk_scale: the rescaled theta is 10000 times
\* 1, 16 and 81 for a head width of 8.
NtkArgs == { <<1, 1>>, <<8, 1>>, <<14, 2>> }

\* The scales reset_scale is called with.
ScaleArgs == { Frac(1, 2), FInt(2) }

\* Largest number of blocks of a model.
MaxDepth == 2

InitModel ==
    \E class \in Models, img_size \in ImgSizes, d \in Widths,
       depth \in 1..MaxDepth, use_cls \in BOOLEAN, auto_scale \in BOOLEAN,
       c1 \in BOOLEAN, c2 \in BOOLEAN :
        module = VisionTransformerRotate_init(class, img_size, d[1], depth,
                                              d[2], use_cls, auto_scale,
                                              c1, c2)

Init ==
    /\ \/ InitModel
       \/ InitGSAttention
       \/ InitRAttention
       \/ InitMHSAttention
       \/ InitGroupAttention
    /\ call = NoCall

\* A forward call of the RAttention under test on N tokens.
ForwardRAttention ==
    /\ module.class = "RAttention"
    /\ \E N \in SquareTokenNums \cup { t + 1 : t \in SquareTokenNums } :
          call' = RAttention_forward(module, N)
    /\ UNCHANGED module

\* A forward call of the MHSAttention under test on an H x W grid.
ForwardMHSAttention ==
    /\ module.class = "MHSAttention"
    /\ \E H \in Sides, W \in Sides :
          LET r == MHSAttention_forward(module, H, W)
          IN  module' = r.self /\ call' = r.call

\* A forward call of the GroupAttention under test on an H x W grid.
ForwardGroupAttention ==
    /\ module.class = "GroupAttention"
    /\ \E H \in Sides, W \in Sides :
          LET r == GroupAttention_forward(module, H, W)
          IN  module' = r.self /\ call' = r.call

\* A forward call of the GSAttention under test on an H x W grid.
ForwardGSAttention ==
    /\ module.class = "GSAttention"
    /\ \E H \in Sides, W \in Sides :
          LET r == GSAttention_forward(module, H, W)
          IN  module' = r.self /\ call' = r.call

\* A forward_features call of the model under test.
ForwardFeatures ==
    /\ module.class \in Models
    /\ \E img \in ImgSizes :
          LET r == forward_features(module, img)
          IN  module' = r.self /\ call' = r.call

\* A reset_ntk_scale call on the model under test.
ResetNtkScale ==
    /\ module.class \in Models
    /\ \E a \in NtkArgs : module' = reset_ntk_scale(module, a[1], a[2])
    /\ UNCHANGED call

\* A reset_scale call on the model under test.
ResetScale ==
    /\ module.class \in Models
    /\ \E scale \in ScaleArgs : module' = reset_scale(module, scale)
    /\ UNCHANGED call

Next ==
    \/ ForwardFeatures
    \/ ResetNtkScale
    \/ ResetScale
    \/ ForwardRAttention
    \/ ForwardMHSAttention
    \/ ForwardGroupAttention
    \/ ForwardGSAttention

Spec == Init /\ [][Next]_vars

(***************************************************************************)
(* The table functions on their own: the arguments of a call are drawn at  *)
(* the start, and each function is applied to them.                        *)
(***************************************************************************)
\* Largest dim and end of a call.
MaxTableDim == 9

MaxEnd == 5

InitTable ==
    /\ \E dim \in 0..MaxTableDim, end \in 1..MaxEnd, use_cls \in BOOLEAN,
          cls_pos \in {-1, 3}, W \in 0..2, step \in 1..2,
          scale \in {FInt(1), Frac(1, 2)} :
           module = [class |-> "arguments", dim |-> dim, end |-> end,
                     use_cls |-> use_cls, cls_pos |-> cls_pos, W |-> W,
                     step |-> step, bias |-> Frac(step - 1, step),
                     theta |-> DefaultTheta, scale |-> scale]
    /\ call = NoCall

\* precompute_freqs_cis_2d(dim, end, theta, scale, use_cls, cls_pos)
CallTable2d ==
    /\ module.class = "arguments"
    /\ call' = [op |-> "precompute_freqs_cis_2d",
                table |-> precompute_freqs_cis_2d(
                              module.dim, module.end, module.theta,
                              module.scale, module.use_cls, module.cls_pos)]
    /\ UNCHANGED module

\* precompute_freqs_cis_2d_general(dim, end, step, W, bias, theta, scale,
\* use_cls)
CallTable2dGeneral ==
    /\ module.class = "arguments"
    /\ call' = [op |-> "precompute_freqs_cis_2d_general",
                table |-> precompute_freqs_cis_2d_general(
                              module.dim, module.end, module.step, module.W,
                              module.bias, module.theta, module.scale,
                              module.use_cls)]
    /\ UNCHANGED module

NextTable ==
    \/ CallTable2d
    \/ CallTable2dGeneral

SpecTable == InitTable /\ [][NextTable]_vars

(***************************************************************************)
(* The rotary step of the attention variants on the query and key vectors  *)
(* of one token and head, and GQA.forward.  A vector is the sequence of    *)
(* its channels; a channel is an input channel as it came out of the       *)
(* projection, or the image of one under the rotation by frequency j of    *)
(* the table.                                                              *)
(***************************************************************************)
\* The vector of name `of` (q or k) and width head_dim before the rotation.
In(of, head_dim) ==
    [c \in 1..head_dim |-> [kind |-> "in", of |-> of, c |-> c - 1, j |-> -1]]

\* view_as_real(view_as_complex(x.reshape(.., -1, 2)) * freqs_cis).flatten:
\* channels 2j and 2j + 1 are the pair rotated by frequency j.
rotate(x) ==
    [c \in 1..Len(x) |->
        [kind |-> "rot", of |-> x[c].of, c |-> x[c].c, j |-> (c - 1) \div 2]]

\* x.reshape(*x.shape[:-1], -1, 2) is defined for an even width only, and
\* not for a tensor of no elements (the size of -1 is ambiguous).
pairs_ok(width) == width > 0 /\ width % 2 = 0

\* x[..., :n] and x[..., n:]
upto(x, n) == SubSeq(x, 1, IF n < Len(x) THEN n ELSE Len(x))

from(x, n) == SubSeq(x, (IF n < Len(x) THEN n ELSE Len(x)) + 1, Len(x))

\* Rotates every channel.
rotary_cat_whole(x, rpe_dim) == rotate(x)

\* torch.cat((rot(x[..., :rpe_dim]), x[..., rpe_dim:]), dim=-1)
rotary_cat(x, rpe_dim) == rotate(upto(x, rpe_dim)) \o from(x, rpe_dim)

\* The record of a rotary step.
RotaryCall(op, self, rpe_dim) ==
    [op |-> op, rpe_dim |-> rpe_dim, result |-> "ok", rotated |-> FALSE,
     q |-> In("q", self.dim \div self.num_heads),
     k |-> In("k", self.dim \div self.num_heads)]

\* if rpe_dim > 0: q_rot, k_rot = apply_rotary_emb(q[..., :rpe_dim],
\* k[..., :rpe_dim], ...); q = cat((q_rot, q[..., rpe_dim:])); k likewise.
\* GQA has no rpe_dim > 0 test (guarded = FALSE).
rotary_step(op, self, rpe_dim, guarded) ==
    LET c == RotaryCall(op, self, rpe_dim)
    IN  IF guarded /\ ~(rpe_dim > 0) THEN c
        ELSE IF ~pairs_ok(rpe_dim) THEN [c EXCEPT !.result = "RuntimeError"]
        ELSE [c EXCEPT !.rotated = TRUE,
                       !.q = rotary_cat(c.q, rpe_dim),
                       !.k = rotary_cat(c.k, rpe_dim)]

\* RAttention.forward: rpe_dim = int(self.rpe_ratio * C // self.num_heads)
RAttention_rotary(self) ==
    rotary_step("RAttention.forward", self, forward_rpe_dim(self), TRUE)

\* MHSAttention.forward: rpe_dim = int(self.rpe_ratio * C // self.num_heads)
MHSAttention_rotary(self) ==
    rotary_step("MHSAttention.forward", self, forward_rpe_dim(self), TRUE)

\* GroupAttention.forward: rpe_dim = int(self.rpe_ratio * C // self.num_heads)
GroupAttention_rotary(self) ==
    rotary_step("GroupAttention.forward", self, forward_rpe_dim(self), TRUE)

\* GSAttention.forward: rpe_dim = int(self.dim // self.num_heads *
\* self.rpe_ratio)
GSAttention_rotary(self) ==
    rotary_step("GSAttention.forward", self, table_dim(self), TRUE)

\* GQA.__init__
GQA_init(dim, num_heads, rpe_ratio, query_groups) ==
    [class |-> "GQA", dim |-> dim, num_heads |-> num_heads,
     query_groups |-> query_groups, head_dim |-> dim \div num_heads,
     rpe_ratio |-> rpe_ratio]

\* The heads of k (and of v) after the split, the expand under
\* query_groups != 1 and reshape(B, -1, T, head_dim): for each head the
\* query group whose key it is.
kv_expanded(query_groups, q_per_kv) ==
    IF query_groups # 1
    THEN [h \in 0..(query_groups * q_per_kv - 1) |-> h \div q_per_kv]
    ELSE [h \in 0..(query_groups - 1) |-> h]

\* is_causal of the call of F.scaled_dot_product_attention, causal of
\* flash_attn_func: forward passes no mask.
sdpa_is_causal(flash) == IF flash THEN FALSE ELSE TRUE

\* The keys query i attends to in scaled dot-product attention over T
\* tokens: all of them, or those at positions <= i when the call is causal
\* (the lower-triangular mask of is_causal / causal).
sdpa_attends(T, is_causal) ==
    [i \in 1..T |-> {j \in 1..T : ~is_causal \/ j <= i}]

\* GQA.forward on T tokens with a table of freqs_rows rows and the width
\* the rotation expects; flash tells whether the flash-attention path is
\* taken (package available, cuda, half precision).
GQA_forward(self, T, freqs_rows, flash) ==
    LET G == self.query_groups
        q_per_kv == self.num_heads \div G
        total_qkv == q_per_kv + 2
        q_heads == G * q_per_kv
        kv == kv_expanded(G, q_per_kv)
        k_heads == Cardinality(DOMAIN kv)
        rope_dim == table_dim(self)
        width == rope_dim \div 2
        freqs_cis == [kind |-> "table", rows |-> freqs_rows, chans |-> width,
                      at |-> <<>>]
        \* heads of xk_ * freqs_cis, the table viewed as (1, q_heads, .., width)
        k_roped_heads == IF k_heads = 1 THEN q_heads ELSE k_heads
        step == rotary_step("GQA.forward", self, rope_dim, FALSE)
        c == [RotaryCall("GQA.forward", self, rope_dim) EXCEPT
                 !.result = "RuntimeError"]
             @@ [T |-> T, q_heads |-> q_heads, k_group |-> kv, v_group |-> kv,
                 causal |-> FALSE, flash |-> flash]
    IN  IF (self.num_heads + 2 * G) * self.head_dim
              # G * total_qkv * self.head_dim
        THEN [c EXCEPT !.q_heads = 0, !.k_group = <<>>, !.v_group = <<>>]
        ELSE IF step.result # "ok" THEN c
        ELSE IF ~reshape_for_broadcast_ok(freqs_cis, q_heads, T, width) THEN c
        ELSE IF k_roped_heads # k_heads THEN c
        ELSE step @@ [T |-> T, q_heads |-> q_heads, k_group |-> kv,
                      v_group |-> kv, causal |-> sdpa_is_causal(flash),
                      flash |-> flash]

\* Head widths, head counts, group counts and rpe_ratio of the modules the
\* rotary step is applied in.
MaxHeadDim == 6

HeadCounts == {1, 2, 4}

RotaryRatios == { FInt(0), Frac(1, 4), Frac(1, 2), Frac(3, 4), FInt(1) }

RotaryClasses == {"RAttention", "MHSAttention", "GroupAttention", "GSAttention"}

InitRotary ==
    /\ \E head_dim \in 1..MaxHeadDim, nh \in HeadCounts, r \in RotaryRatios :
          \/ \E class \in RotaryClasses :
                module = [class |-> class, dim |-> head_dim * nh,
                          num_heads |-> nh, rpe_ratio |-> r]
          \/ \E G \in HeadCounts : module = GQA_init(head_dim * nh, nh, r, G)
    /\ call = NoCall

RotaryRAttention ==
    /\ module.class = "RAttention"
    /\ call' = RAttention_rotary(module)
    /\ UNCHANGED module

RotaryMHSAttention ==
    /\ module.class = "MHSAttention"
    /\ call' = MHSAttention_rotary(module)
    /\ UNCHANGED module

RotaryGroupAttention ==
    /\ module.class = "GroupAttention"
    /\ call' = GroupAttention_rotary(module)
    /\ UNCHANGED module

RotaryGSAttention ==
    /\ module.class = "GSAttention"
    /\ call' = GSAttention_rotary(module)
    /\ UNCHANGED module

\* A forward call of the GQA under test.
ForwardGQA ==
    /\ module.class = "GQA"
    /\ \E T \in 1..2, freqs_rows \in HeadCounts, flash \in BOOLEAN :
          call' = GQA_forward(module, T, freqs_rows, flash)
    /\ UNCHANGED module

NextRotary ==
    \/ RotaryRAttention
    \/ RotaryMHSAttention
    \/ RotaryGroupAttention
    \/ RotaryGSAttention
    \/ ForwardGQA

SpecRotary == InitRotary /\ [][NextRotary]_vars

(***************************************************************************)
(* The hidden width of LLaMAMLP                                            *)
(***************************************************************************)
\* Adds k - n % k whether or not k divides n.
find_multiple_always_adds(n, k) == n + k - (n % k)

\* find_multiple
find_multiple(n, k) == IF n % k = 0 THEN n ELSE n + k - (n % k)

\* The multiple the hidden width of LLaMAMLP is rounded to.
hidden_multiple == 256

\* LLaMAMLP.__init__: the widths of c_fc1, c_fc2 and c_proj.
LLaMAMLP_init(in_features) ==
    LET n_embd == in_features
        hidden_dim == 4 * n_embd
        n_hidden == (2 * hidden_dim) \div 3
    IN  [class |-> "LLaMAMLP", n_embd |-> n_embd,
         n_hidden |-> find_multiple(n_hidden, hidden_multiple)]

\* Arguments of find_multiple and of LLaMAMLP.
MaxN == 12

MaxK == 6

MaxFeatures == 200

InitMLP ==
    /\ module \in [class : {"arguments"}, n : 0..MaxN, k : 1..MaxK,
                    in_features : {0}]
                 \cup [class : {"arguments"}, n : {0}, k : {1},
                       in_features : 1..MaxFeatures]
    /\ call = NoCall

\* A call find_multiple(n, k).
CallFindMultiple ==
    /\ module.class = "arguments"
    /\ module.in_features = 0
    /\ call' = [op |-> "find_multiple",
                value |-> find_multiple(module.n, module.k)]
    /\ UNCHANGED module

\* The construction LLaMAMLP(in_features).
ConstructLLaMAMLP ==
    /\ module.class = "arguments"
    /\ module.n = 0 /\ module.k = 1
    /\ module' = LLaMAMLP_init(module.in_features)
    /\ call' = [op |-> "LLaMAMLP.__init__", value |-> module.in_features]

NextMLP ==
    \/ CallFindMultiple
    \/ ConstructLLaMAMLP

SpecMLP == InitMLP /\ [][NextMLP]_vars

(***************************************************************************)
(* The patch embeddings on their own: forward on an image of H x W pixels  *)
(***************************************************************************)
\* ConvPatchEmbed.__init__ with a square img_size
ConvPatchEmbed_init(img_size, patch) ==
    [class |-> "ConvPatchEmbed", img_size |-> img_size, patch_size |-> patch,
     num_patches |-> (img_size \div patch) * (img_size \div patch)]

\* MyPatchEmbed.__init__ with a square img_size, which the assertion of
\* the constructor requires to be a multiple of the patch size
MyPatchEmbed_init(img_size, patch) ==
    [class |-> "MyPatchEmbed", img_size |-> img_size, patch_size |-> patch,
     num_patches |-> (img_size \div patch) * (img_size \div patch)]

\* The record of a forward call of a patch embedding: the image, how the
\* call ended, the number of tokens returned and the grid returned with
\* them (MyPatchEmbed only).
PatchCall(op, H, W) ==
    [op |-> op, H |-> H, W |-> W, result |-> "ok", tokens |-> 0,
     grid |-> <<0, 0>>]

\* self.proj(x).flatten(2).transpose(1, 2): the convolution of kernel and
\* stride patch_size raises on an image smaller than its kernel.
proj_tokens(self, H, W) == (H \div self.patch_size) * (W \div self.patch_size)

proj_ok(self, H, W) == H >= self.patch_size /\ W >= self.patch_size

\* ConvPatchEmbed.forward
ConvPatchEmbed_forward(self, H, W) ==
    LET c == PatchCall("ConvPatchEmbed.forward", H, W)
    IN  IF ~(H = self.img_size /\ W = self.img_size)
        THEN [c EXCEPT !.result = "AssertionError"]
        ELSE IF ~proj_ok(self, H, W)
        THEN [c EXCEPT !.result = "RuntimeError"]
        ELSE [c EXCEPT !.tokens = proj_tokens(self, H, W)]

\* MyPatchEmbed.forward
MyPatchEmbed_forward(self, H, W) ==
    LET c == PatchCall("MyPatchEmbed.forward", H, W)
    IN  IF ~proj_ok(self, H, W)
        THEN [c EXCEPT !.result = "RuntimeError"]
        ELSE [c EXCEPT !.tokens = proj_tokens(self, H, W),
                       !.grid = <<H \div self.patch_size,
                                  W \div self.patch_size>>]

\* Sides of the images fed, in pixels: half patches up to MaxSide patches.
PixelSides == { (patch_size \div 2) * s : s \in 1..(2 * MaxSide) }

InitPatch ==
    /\ \/ \E img_size \in PixelSides :
             module = ConvPatchEmbed_init(img_size, patch_size)
       \/ \E img_size \in ImgSizes :
             module = MyPatchEmbed_init(img_size, patch_size)
    /\ call = NoCall

\* A forward call of the ConvPatchEmbed under test.
ForwardConvPatchEmbed ==
    /\ module.class = "ConvPatchEmbed"
    /\ \E H \in PixelSides, W \in PixelSides :
          call' = ConvPatchEmbed_forward(module, H, W)
    /\ UNCHANGED module

\* A forward call of the MyPatchEmbed under test.
ForwardMyPatchEmbed ==
    /\ module.class = "MyPatchEmbed"
    /\ \E H \in PixelSides, W \in PixelSides :
          call' = MyPatchEmbed_forward(module, H, W)
    /\ UNCHANGED module

NextPatch ==
    \/ ForwardConvPatchEmbed
    \/ ForwardMyPatchEmbed

SpecPatch == InitPatch /\ [][NextPatch]_vars

(***************************************************************************)
(* Construction of the single-stage models with a block class              *)
(***************************************************************************)
BlockClasses ==
    {"RBlock", "RBlockRMSNorm", "LSRBlockRMSNorm", "LAMABlock",
     "LAMABlockNoLS"}

\* The parameters of RBlock.__init__ (and of LAMABlockNoLS.__init__).
RBlock_params ==
    {"dim", "num_heads", "mlp_ratio", "qkv_bias", "qk_scale", "drop",
     "attn_drop", "drop_path", "act_layer", "norm_layer", "enable_rpe"}

\* The parameters of RBlockRMSNorm.__init__.
RBlockRMSNorm_params ==
    RBlock_params \cup {"rpe_ratio", "token_num", "casual_attn_1d",
                        "casual_attn_2d", "use_cls_token"}

\* The parameters of the __init__ of a block class.
block_params(blk_cls) ==
    CASE blk_cls = "RBlock" -> RBlock_params
      [] blk_cls = "RBlockRMSNorm" -> RBlockRMSNorm_params
      [] blk_cls = "LSRBlockRMSNorm" -> RBlockRMSNorm_params \cup {"init_values"}
      [] blk_cls = "LAMABlock" -> RBlockRMSNorm_params \cup {"init_values"}
      [] blk_cls = "LAMABlockNoLS" -> RBlock_params

\* The keywords VisionTransformerRotate.__init__ calls blk_cls with.
model_block_kwargs ==
    {"dim", "num_heads", "mlp_ratio", "qkv_bias", "qk_scale", "drop",
     "attn_drop", "drop_path", "norm_layer", "enable_rpe", "token_num",
     "casual_attn_1d", "casual_attn_2d", "use_cls_token"}

\* VisionTransformerRotate.__init__ (VisionLLaMA.__init__ calls it with
\* its own blk_cls) with the arguments args: blk_cls(...) raises TypeError
\* on a keyword that is not one of its parameters.
model_construct(args) ==
    LET op == IF args.model = "VisionLLaMA" THEN "VisionLLaMA.__init__"
              ELSE "VisionTransformerRotate.__init__"
        c == BaseCall(op, 0, 0, 0) @@ [args |-> args]
    IN  IF ~(model_block_kwargs \subseteq block_params(args.blk_cls))
        THEN [self |-> args, call |-> Raised(c, "TypeError")]
        ELSE [self |-> VisionTransformerRotate_init(
                          args.model, args.img_size, args.embed_dim,
                          args.depth, args.num_heads, args.use_cls_token,
                          args.auto_scale, args.casual_attn_1d,
                          args.casual_attn_2d),
              call |-> c]

\* Widths of the models built: that of Widths, and embed_dim 32 with 4
\* heads.
BuildWidths == Widths \cup { <<32, 4>> }

InitBuild ==
    /\ \E model \in Models, blk_cls \in BlockClasses, img_size \in ImgSizes,
          d \in BuildWidths, use_cls \in BOOLEAN, auto_scale \in BOOLEAN,
          c1 \in BOOLEAN, c2 \in BOOLEAN :
          module = [class |-> "arguments", model |-> model,
                    blk_cls |-> blk_cls, img_size |-> img_size,
                    embed_dim |-> d[1], depth |-> 2, num_heads |-> d[2],
                    use_cls_token |-> use_cls, auto_scale |-> auto_scale,
                    casual_attn_1d |-> c1, casual_attn_2d |-> c2]
    /\ call = NoCall

\* The construction of the model.
Construct ==
    /\ module.class = "arguments"
    /\ call.op = "none"
    /\ LET r == model_construct(module)
       IN  module' = r.self /\ call' = r.call

\* A forward_features call of the model built.
BuiltForwardFeatures ==
    /\ module.class \in Models
    /\ \E img \in ImgSizes :
          LET r == forward_features(module, img)
          IN  module' = r.self /\ call' = r.call

NextBuild ==
    \/ Construct
    \/ BuiltForwardFeatures

SpecBuild == InitBuild /\ [][NextBuild]_vars

(***************************************************************************)
(* Properties                                                              *)
(***************************************************************************)
\* The keys query i may attend to under a mask.
Visible(mask, i) == { j \in 0..(mask.cols - 1) : mask.at[i][j] = Zero }

Queries(mask) == 0..(mask.rows - 1)

Keys(mask) == 0..(mask.cols - 1)

\* The RAttention whose mask the call adds: the module under test, or the
\* one in the blocks of the model under test.
Attn == IF module.class \in Models THEN module.blocks ELSE module

RAttentionCall ==
    call.op \in {"RAttention.forward", "VisionLLaMA.forward_features",
                 "VisionTransformerRotate.forward_features"}

\* The call added a mask made by create_causal_mask(size) as it is.
OneDimCall ==
    /\ call.masked
    /\ call.op \in {"MHSAttention.forward", "GroupAttention.forward"}

\* C1: in the mask create_causal_mask(size) returns, for every size >= 1,
\* entry [i][j] is 0 when j <= i and -inf when j > i.
Thm_C1 ==
    OneDimCall =>
        /\ call.mask.rows >= 1
        /\ call.mask.cols = call.mask.rows
        /\ \A i \in Queries(call.mask), j \in Keys(call.mask) :
              call.mask.at[i][j] = IF j <= i THEN Zero ELSE NegInf

\* A forward call of MHSAttention added the 1D mask of length 4.
Wit_C1 ==
    /\ OneDimCall
    /\ call.op = "MHSAttention.forward"
    /\ call.mask.rows = 4
    /\ call.mask.at[1][1] = Zero
    /\ call.mask.at[1][2] = NegInf

\* The call added the 2D raster mask of an RAttention built without a class
\* token.
RasterCall ==
    /\ call.masked
    /\ RAttentionCall
    /\ Attn.casual_attn_2d
    /\ ~Attn.use_cls_token

\* C2: in the mask of an RAttention built with casual_attn_2d, without a
\* class token, for token_num = S * S, entry [i][j] is 0 exactly when
\* j div S <= i div S and j mod S <= i mod S, and -inf otherwise.
Thm_C2 ==
    RasterCall =>
        LET S == int_sqrt(Attn.token_num)
        IN  /\ S * S = Attn.token_num
            /\ call.mask.rows = S * S
            /\ call.mask.cols = S * S
            /\ \A i \in Queries(call.mask), j \in Keys(call.mask) :
                  call.mask.at[i][j] =
                      IF j \div S <= i \div S /\ j % S <= i % S
                      THEN Zero ELSE NegInf

\* On the 2 x 2 grid index 3 sees all 4 positions and index 0 only itself.
Wit_C2 ==
    /\ RasterCall
    /\ Attn.token_num = 4
    /\ Visible(call.mask, 3) = {0, 1, 2, 3}
    /\ Visible(call.mask, 0) = {0}

\* The call added the grouped causal mask of GSAttention.
GroupedCall ==
    /\ call.masked
    /\ call.op = "GSAttention.forward"

\* C3: in the grouped mask of GSAttention, entry [i][m] is 0 exactly when m
\* is below the visible count x_block * sr_ratio + y_block + 1 that the
\* per-query loop of the reference algorithm gives for query i, and the
\* vectorised computation gives the same counts as that loop.
Thm_C3 ==
    GroupedCall =>
        LET ref == reference_token_visible_num(call.H, call.W, module.sr_ratio)
        IN  /\ call.mask.rows = call.H * call.W
            /\ \A i \in Queries(call.mask), m \in Keys(call.mask) :
                  (call.mask.at[i][m] = Zero) <=> (m < ref[i])
            /\ token_visible_num(call.H, call.W, module.sr_ratio) = ref

\* H = W = 4, sr_ratio = 2: query 5 has one visible reduced key of the four.
Wit_C3 ==
    /\ GroupedCall
    /\ call.H = 4 /\ call.W = 4 /\ module.sr_ratio = 2
    /\ call.mask.cols = 4
    /\ Visible(call.mask, 5) = {0}

\* C4: in the grouped mask of GSAttention, on every H x W grid with H and W
\* divisible by sr_ratio, the block coordinate of query i is
\* x_block = (i div W) div sr_ratio, y_block = (i mod W) div sr_ratio, and
\* the visible count of i is x_block * sr_ratio + y_block + 1.
Cex_C4 ==
    (/\ GroupedCall
     /\ call.H % module.sr_ratio = 0
     /\ call.W % module.sr_ratio = 0) =>
        \A i \in Queries(call.mask) :
            LET x_block == (i \div call.W) \div module.sr_ratio
                y_block == (i % call.W) \div module.sr_ratio
            IN  /\ gs_x_pos(i, call.H, module.sr_ratio) = x_block
                /\ gs_y_pos(i, call.H, module.sr_ratio) = y_block
                /\ \A m \in Keys(call.mask) :
                      (call.mask.at[i][m] = Zero)
                          <=> (m < x_block * module.sr_ratio + y_block + 1)

\* The call added the mask of an RAttention built with a causal flag and a
\* class token.
PaddedCall ==
    /\ call.masked
    /\ RAttentionCall
    /\ Attn.use_cls_token

\* C5: the mask of an RAttention built with a causal flag and use_cls_token
\* has size (token_num + 1) x (token_num + 1), row 0 and column 0 are all 0,
\* and its block [1..token_num] x [1..token_num] is the mask built without
\* a class token (the 2D raster mask, or create_causal_mask(token_num)).
Thm_C5 ==
    PaddedCall =>
        LET t == Attn.token_num
            plain == IF Attn.casual_attn_2d THEN raster_mask_2d(t)
                     ELSE create_causal_mask(t)
        IN  /\ call.mask.rows = t + 1
            /\ call.mask.cols = t + 1
            /\ \A j \in 0..t : call.mask.at[0][j] = Zero
            /\ \A i \in 0..t : call.mask.at[i][0] = Zero
            /\ \A i \in 1..t, j \in 1..t :
                  call.mask.at[i][j] = plain.at[i - 1][j - 1]

\* A padded 1D mask of 4 patch tokens: patch 1 sees the class token and
\* itself, not patch 2.
Wit_C5 ==
    /\ PaddedCall
    /\ ~Attn.casual_attn_2d
    /\ Attn.token_num = 4
    /\ Visible(call.mask, 1) = {0, 1}

\* The masks whose rows are the raster positions of the patch tokens: every
\* mask a call added, but the ones padded for a class token.
RasterRows ==
    /\ call.masked
    /\ RAttentionCall => ~Attn.use_cls_token

\* C6 as stated: in every causal mask the code builds, for all query
\* positions i < i' in raster order the keys visible to i are visible to i'.
Cex_C6 ==
    RasterRows =>
        \A i \in Queries(call.mask), k \in Queries(call.mask) :
            i < k => Visible(call.mask, i) \subseteq Visible(call.mask, k)

\* The side by which the mask of the call splits a raster position into
\* (i div side, i mod side): S of the S x S grid of RAttention, H of
\* GSAttention.
Side ==
    IF RAttentionCall THEN int_sqrt(Attn.token_num) ELSE call.H

\* C6 amended: in the 1D masks the visible set never shrinks as i increases;
\* in the 2D raster mask and the grouped mask it never shrinks from i to i'
\* when neither i' div side nor i' mod side is smaller than that of i.
Thm_C6 ==
    RasterRows =>
        \A i \in Queries(call.mask), k \in Queries(call.mask) :
            IF OneDimCall
            THEN i < k => Visible(call.mask, i) \subseteq Visible(call.mask, k)
            ELSE (i \div Side <= k \div Side /\ i % Side <= k % Side)
                    => Visible(call.mask, i) \subseteq Visible(call.mask, k)

\* A mask over 16 raster positions in which position 15 sees all that
\* position 5 sees, and more.
Wit_C6 ==
    /\ RasterRows
    /\ call.mask.rows = 16
    /\ Visible(call.mask, 5) # Visible(call.mask, 15)
    /\ Visible(call.mask, 5) \subseteq Visible(call.mask, 15)

\* The masks whose queries and keys index the same tokens.
SameTokens == RAttentionCall \/ OneDimCall

\* C7: in every causal mask the code builds each query row has a visible
\* key, and where queries and keys index the same tokens entry [i][i] is 0.
Thm_C7 ==
    call.masked =>
        /\ \A i \in Queries(call.mask) : Visible(call.mask, i) # {}
        /\ SameTokens => \A i \in Queries(call.mask) : call.mask.at[i][i] = Zero

\* A grouped mask of several keys in which a query sees one key only.
Wit_C7 ==
    /\ GroupedCall
    /\ call.mask.cols > 1
    /\ \E i \in Queries(call.mask) : Cardinality(Visible(call.mask, i)) = 1

\* C8: the mask a forward call adds has the shape (queries, keys) of the
\* scores of the call, and the mask held by the blocks of a
\* VisionTransformerRotate or VisionLLaMA built with a causal flag has the
\* size of the token sequence forward_features feeds into the blocks.
Cex_C8 ==
    /\ (call.masked /\ call.result = "ok") =>
          /\ call.mask.rows = call.queries
          /\ call.mask.cols = call.keys
    /\ (/\ module.class \in Models
        /\ module.blocks.mask_set
        /\ call.op # "none"
        /\ call.result # "AssertionError") =>
          /\ module.blocks.casual_mask.rows = call.N
          /\ module.blocks.casual_mask.cols = call.N

\* The mask for the shape of the call: what the module would build for the
\* token count and grid of this call.
MaskForCall ==
    CASE RAttentionCall ->
            RAttention_init(IF Attn.use_cls_token THEN call.N - 1 ELSE call.N,
                            Attn.casual_attn_1d, Attn.casual_attn_2d,
                            Attn.use_cls_token).casual_mask
      [] call.op = "MHSAttention.forward" -> create_causal_mask(call.H * call.W)
      [] call.op = "GroupAttention.forward" ->
            create_causal_mask(module.ws * module.ws)
      [] call.op = "GSAttention.forward" ->
            grouped_causal_mask(call.H, call.W, module.sr_ratio,
                ((call.H * call.W) \div module.sr_ratio) \div module.sr_ratio)
      [] OTHER -> call.mask

\* C9: the causal mask a call applies is the mask for that call's token
\* count and grid dimensions, never one built for an earlier shape.
Cex_C9 ==
    (call.masked /\ call.result = "ok") => call.mask = MaskForCall

\* The tables a fresh computation gives for the arguments of the call.
FreshQ ==
    CASE call.op = "MHSAttention.forward" ->
            precompute_freqs_cis_2d(table_dim(module), call.N, DefaultTheta,
                                    FInt(1), module.use_cls_token, -1)
      [] call.op = "GroupAttention.forward" ->
            precompute_freqs_cis_2d(table_dim(module), module.ws * module.ws,
                                    DefaultTheta, FInt(1),
                                    module.use_cls_token, -1)
      [] call.op = "GSAttention.forward" ->
            precompute_freqs_cis_2d_general(
                table_dim(module), call.N, 1, call.W, FInt(0),
                GSAttention_theta(module), GSAttention_scale(module, call.H),
                module.use_cls_token)
      [] OTHER -> call.q_freqs

\* C10: the cached frequency table a call of MHSAttention, GroupAttention or
\* GSAttention rotates the queries with is the table a fresh computation
\* gives for that call's token count, grid width and scale.
Cex_C10 ==
    (call.rotated /\ call.result = "ok") => call.q_freqs = FreshQ

\* The table forward_features would build for a batch of img x img images
\* in a model configured for that size.
ModelFresh(self, img) ==
    model_freqs_cis([self EXCEPT !.num_patches = num_patches(img, patch_size)],
                    img)

Cex_C18 ==
    [][\A a \in NtkArgs :
          (/\ module.class = "VisionTransformerRotate"
           /\ module' = reset_ntk_scale(module, a[1], a[2])
           /\ forward_features(module', module.img_size).call.result = "ok")
             => forward_features(module', module.img_size).call.q_freqs
                   = rows_upto(
                         precompute_freqs_cis(
                             module.embed_dim \div module.num_heads,
                             module.num_patches * 2,
                             ntk_theta(a[1], a[2],
                                       module.embed_dim \div module.num_heads),
                             FInt(1)),
                         module.num_patches)]_vars

\* A forward call of GSAttention that built both of its tables, rotated with
\* them and returned.
GSABuilt ==
    /\ ForwardGSAttention
    /\ module.q_freqs_cis.kind = "none"
    /\ module.k_freqs_cis.kind = "none"
    /\ call'.result = "ok"
    /\ call'.rotated

\* C16: in GSAttention with sr_ratio > 1 on an H x W grid (H and W multiples
\* of sr_ratio), the key table the call builds gives reduced key m, the
\* block at block-row m div (W / sr_ratio) and block-column
\* m mod (W / sr_ratio), the coordinate x = bias + sr_ratio * block-column,
\* y = bias + sr_ratio * block-row with bias = 1 - 1 / sr_ratio, under the
\* scale of the queries.
Cex_C16 ==
    [][(/\ GSABuilt
        /\ module.sr_ratio > 1
        /\ call'.H % module.sr_ratio = 0
        /\ call'.W % module.sr_ratio = 0)
          => LET sr == module.sr_ratio
                 Wr == call'.W \div sr
                 bias == Frac(sr - 1, sr)
                 scale == GSAttention_scale(module, call'.H)
             IN  /\ call'.k_freqs.rows = call'.keys
                 /\ \A m \in 0..(call'.keys - 1) :
                       /\ call'.k_freqs.at[m][0].pos
                             = FMul(scale, FAdd(bias, FInt(sr * (m % Wr))))
                       /\ call'.k_freqs.at[m][1].pos
                             = FMul(scale, FAdd(bias, FInt(sr * (m \div Wr))))]_vars

\* C17: in GSAttention with use_ntk enabled, the query table and the key
\* table a forward call builds are both computed with
\* theta = 10000 * use_ntk and scale = 1.0, whatever auto_scale is.
Cex_C17 ==
    [][(GSABuilt /\ ~module.use_ntk.is_false)
          => LET sr == module.sr_ratio
                 theta == DefaultTheta * module.use_ntk.value
             IN  /\ call'.q_freqs
                       = precompute_freqs_cis_2d_general(
                             table_dim(module), call'.N, 1, call'.W, FInt(0),
                             theta, FInt(1), module.use_cls_token)
                 /\ call'.k_freqs
                       = precompute_freqs_cis_2d_general(
                             table_dim(module),
                             (call'.N \div sr) \div sr, sr, call'.W,
                             Frac(sr - 1, sr), theta, FInt(1),
                             module.use_cls_token)]_vars

\* The call returned from one of the 2D table functions.
TableCall ==
    call.op \in {"precompute_freqs_cis_2d", "precompute_freqs_cis_2d_general"}

\* C12: precompute_freqs_cis_2d and precompute_freqs_cis_2d_general called
\* with a dim that is not a multiple of 4 raise; they return no table, and so
\* none whose channel count differs from dim / 2.
Cex_C12 ==
    (TableCall /\ module.dim % 4 # 0) => call.table.kind = "raised"

\* C15: precompute_freqs_cis_2d with dim a multiple of 4 returns a table of
\* end rows (end + 1 with use_cls) and dim / 2 channels; the row of patch p
\* (row p, row p + 1 with use_cls) has in channel 2j the phase of
\* x = p mod W and in channel 2j + 1 the phase of y = p div W at frequency
\* theta ** -(4j / dim), W = floor(sqrt(end)), the positions multiplied by
\* scale; with use_cls row 0 is computed from flat index -1, or from the
\* coordinate (cls_pos, cls_pos) when cls_pos # -1.
Thm_C15 ==
    (call.op = "precompute_freqs_cis_2d" /\ module.dim % 4 = 0) =>
        LET W == int_sqrt(module.end)
            first == IF module.use_cls THEN 1 ELSE 0
            cls_at == module.use_cls /\ module.cls_pos # -1
            x(p) == IF p = -1 /\ cls_at THEN FInt(module.cls_pos)
                    ELSE FMul(FInt(p % W), module.scale)
            y(p) == IF p = -1 /\ cls_at THEN FInt(module.cls_pos)
                    ELSE FMul(FInt(p \div W), module.scale)
            t == call.table
        IN  /\ t.kind = "table"
            /\ t.rows = module.end + first
            /\ 2 * t.chans = module.dim
            /\ \A r \in 0..(t.rows - 1), j \in 0..((module.dim \div 4) - 1) :
                  /\ t.at[r][2 * j]
                        = polar(x(r - first), 4 * j, module.dim, module.theta)
                  /\ t.at[r][2 * j + 1]
                        = polar(y(r - first), 4 * j, module.dim, module.theta)

\* dim = 8, end = 4 with a class token at flat index -1: 5 rows of 4
\* channels; patch 1 (row 2) has x = 1, y = 0 and the class slot x = 1,
\* y = -1.
Wit_C15 ==
    /\ call.op = "precompute_freqs_cis_2d"
    /\ module.dim = 8 /\ module.end = 4
    /\ module.use_cls /\ module.cls_pos = -1 /\ module.scale = FInt(1)
    /\ call.table.rows = 5 /\ call.table.chans = 4
    /\ call.table.at[2][2].pos = FInt(1)
    /\ call.table.at[2][3].pos = FInt(0)
    /\ call.table.at[0][2].pos = FInt(1)
    /\ call.table.at[0][3].pos = FInt(-1)

\* The call ran the rotary step of an attention variant.
RotaryStep ==
    call.op \in {"RAttention.forward", "MHSAttention.forward",
                 "GroupAttention.forward", "GSAttention.forward",
                 "GQA.forward"}

HeadDim == module.dim \div module.num_heads

\* C13: in every attention variant, for every rpe_ratio in [0, 1] and every
\* head_dim, the rotated width forward computes is
\* floor(rpe_ratio * head_dim), is even and is at most head_dim.
Cex_C13 ==
    RotaryStep =>
        /\ call.rpe_dim = FFloor(FMul(module.rpe_ratio, FInt(HeadDim)))
        /\ call.rpe_dim % 2 = 0
        /\ call.rpe_dim <= HeadDim

\* C14: in every attention variant, after the rotary step the query and the
\* key vector have width head_dim, every channel at index >= rope_dim is the
\* input channel of that index, and only channels below rope_dim are
\* rotated ones.
Thm_C14 ==
    (RotaryStep /\ call.result = "ok") =>
        \A x \in {"q", "k"} :
            LET out == IF x = "q" THEN call.q ELSE call.k
            IN  /\ Len(out) = HeadDim
                /\ \A c \in 1..HeadDim :
                      /\ c > call.rpe_dim => out[c] = In(x, HeadDim)[c]
                      /\ out[c].kind = "rot" => c <= call.rpe_dim
                      /\ out[c].of = x /\ out[c].c = c - 1

\* A step that rotated the first 2 of 4 channels and kept the other 2.
Wit_C14 ==
    /\ RotaryStep
    /\ call.result = "ok"
    /\ call.rotated
    /\ HeadDim = 4 /\ call.rpe_dim = 2
    /\ call.q[2].kind = "rot"
    /\ call.q[3].kind = "in"
    /\ call.k[4] = In("k", 4)[4]

\* C19: GQA with query_groups = 1 is standard multi-head attention for every
\* num_heads >= 1: each of the num_heads query heads has a key head and a
\* value head of its own, and no mask is applied, as in the standard
\* attention.
Cex_C19 ==
    (call.op = "GQA.forward" /\ module.query_groups = 1) =>
        /\ call.q_heads = module.num_heads
        /\ DOMAIN call.k_group = 0..(module.num_heads - 1)
        /\ DOMAIN call.v_group = 0..(module.num_heads - 1)
        /\ ~call.causal

\* C20: in GQA.forward, for every query_groups dividing num_heads, the key
\* and the value tensor have num_heads heads before the dot product, as the
\* query tensor has, and query head h uses the key and value head of group
\* h div (num_heads / query_groups).
Cex_C20 ==
    (/\ call.op = "GQA.forward"
     /\ module.num_heads % module.query_groups = 0) =>
        LET q_per_kv == module.num_heads \div module.query_groups
        IN  /\ call.q_heads = module.num_heads
            /\ DOMAIN call.k_group = 0..(module.num_heads - 1)
            /\ DOMAIN call.v_group = 0..(module.num_heads - 1)
            /\ \A h \in 0..(module.num_heads - 1) :
                  /\ call.k_group[h] = h \div q_per_kv
                  /\ call.v_group[h] = h \div q_per_kv

\* A forward call of GQA that returned.
GQAReturned == call.op = "GQA.forward" /\ call.result = "ok"

\* C21 (as stated): in GQA.scaled_dot_product_attention without a mask the
\* flash-attention path and the reference path have the same causality
\* setting, so the keys each query attends to do not depend on the path
\* taken.
Cex_C21 ==
    GQAReturned
       => sdpa_attends(call.T, call.causal)
             = sdpa_attends(call.T, sdpa_is_causal(~call.flash))

\* m is the smallest multiple of k that is >= n.
SmallestMultiple(m, n, k) == m % k = 0 /\ m >= n /\ m - n < k

\* C22: find_multiple(n, k) is, for n >= 0 and k >= 1, the smallest
\* multiple of k that is >= n (n itself when k divides n), and the hidden
\* width of LLaMAMLP is the smallest multiple of 256 that is
\* >= floor(8 * in_features / 3).
Thm_C22 ==
    /\ call.op = "find_multiple"
          => /\ SmallestMultiple(call.value, module.n, module.k)
             /\ module.n % module.k = 0 => call.value = module.n
    /\ call.op = "LLaMAMLP.__init__"
          => SmallestMultiple(module.n_hidden, (8 * call.value) \div 3,
                              hidden_multiple)

\* C22 witness: find_multiple was called with k > 1 dividing a positive n
\* and returned n.
Wit_C22 ==
    /\ call.op = "find_multiple"
    /\ module.n > 0 /\ module.k > 1
    /\ module.n % module.k = 0
    /\ call.value = module.n

\* A forward call of GroupAttention that returned.
GroupReturned == call.op = "GroupAttention.forward" /\ call.result = "ok"

\* C23: GroupAttention.forward pads the grid on the right and bottom to
\* Hp, Wp, the smallest multiples of ws that are >= H, W, partitions it
\* into ws x ws windows, and after attention un-partitions and crops: the
\* output has N = H * W tokens and the output token at grid position
\* (r, c) is the one computed for input position (r, c).
Thm_C23 ==
    GroupReturned =>
        LET ws == module.ws
            w_ == call.Wp \div ws
        IN  /\ SmallestMultiple(call.Hp, call.H, ws)
            /\ SmallestMultiple(call.Wp, call.W, ws)
            /\ DOMAIN call.windows = 0..((call.Hp \div ws) * w_ - 1)
            /\ \A g \in DOMAIN call.windows :
                  /\ DOMAIN call.windows[g] = 0..(ws * ws - 1)
                  /\ \A p \in DOMAIN call.windows[g] :
                        LET t == call.windows[g][p]
                        IN  t # Pad => /\ t[1] = (g \div w_) * ws + (p \div ws)
                                       /\ t[2] = (g % w_) * ws + (p % ws)
            /\ DOMAIN call.out = 0..(call.H * call.W - 1)
            /\ \A n \in DOMAIN call.out :
                  call.out[n] = <<n \div call.W, n % call.W>>

\* C23 witness: a forward call with ws = 2 on a 3 x 3 grid, padded on both
\* axes to 4 x 4, returned 9 tokens, the last one that of position (2, 2).
Wit_C23 ==
    /\ GroupReturned
    /\ module.ws = 2 /\ call.H = 3 /\ call.W = 3
    /\ call.Hp = 4 /\ call.Wp = 4
    /\ call.out[8] = <<2, 2>>
    /\ call.windows[3][0] = <<2, 2>>
    /\ call.windows[3][3] = Pad

\* A forward call of a patch embedding on an image whose size is not the
\* configured one.
MismatchedImage ==
    /\ call.op \in {"ConvPatchEmbed.forward", "MyPatchEmbed.forward"}
    /\ call.H # module.img_size \/ call.W # module.img_size

\* C24 (as stated): a forward call whose input image size does not match
\* the configured patch grid fails with an error instead of producing
\* output, in ConvPatchEmbed.forward and in MyPatchEmbed.forward.
Cex_C24 == MismatchedImage => call.result # "ok"

\* The construction of a VisionTransformerRotate with its default block
\* class, depth = 2, embed_dim = 32, num_heads = 4, img_size = 32 and
\* patch_size = 16.
DefaultBuild ==
    /\ call.op = "VisionTransformerRotate.__init__"
    /\ call.args.blk_cls = "RBlock"
    /\ call.args.depth = 2
    /\ call.args.embed_dim = 32 /\ call.args.num_heads = 4
    /\ call.args.img_size = 32

\* C25 (as stated): a VisionTransformerRotate with its default block class
\* built with embed_dim = 32, num_heads = 4, img_size = 32, patch_size = 16
\* is constructed without error: every keyword the model passes to its
\* block class is accepted by that class.
Cex_C25 == DefaultBuild => call.result = "ok"

\* C26 (as stated): in the attention variants that rotate with a
\* position-indexed table the vector of token position n and head h is
\* multiplied by the table row of position n, for every num_heads >= 1;
\* here for MHSAttention.forward.
Cex_C26 ==
    (call.op = "MHSAttention.forward" /\ call.result = "ok" /\ call.rotated)
       => \A n \in DOMAIN call.row_of :
             \A h \in DOMAIN call.row_of[n] :
                call.row_of[n][h] = n

\* C27 (as stated): no forward call of RAttention (any casual_attn_1d,
\* casual_attn_2d, use_cls_token) or of GSAttention (any rpe_ratio in
\* [0, 1]) reads a causal mask or a frequency table that was never set.
Cex_C27 ==
    call.op \in {"RAttention.forward", "GSAttention.forward"}
       => call.result # "AttributeError"

\* The table of the model computed with position scale s, and the rows of
\* it a forward call rotates with.
ScaledTable(self, s) ==
    LET head_dim == self.embed_dim \div self.num_heads
    IN  IF self.class = "VisionLLaMA"
        THEN rows_upto(precompute_freqs_cis_2d(head_dim, self.num_patches,
                                               DefaultTheta, s,
                                               self.use_cls_token, -1),
                       tokens_fed(self))
        ELSE rows_upto(precompute_freqs_cis(head_dim, self.num_patches * 2,
                                            DefaultTheta, s),
                       self.num_patches)

\* C28 (as stated): for VisionTransformerRotate and for VisionLLaMA, after
\* reset_scale(s), called before or after forward calls, the next forward
\* call rotates with the table computed with position scale s.
Cex_C28 ==
    [][\A s \in ScaleArgs :
          (/\ module.class \in Models
           /\ module' = reset_scale(module, s)
           /\ forward_features(module', module.img_size).call.result = "ok")
             => forward_features(module', module.img_size).call.q_freqs
                   = ScaledTable(module, s)]_vars

\* A forward call of a VisionLLaMA of two or more blocks with a causal mask
\* and the class token returned.
CausalStack ==
    /\ call.op = "VisionLLaMA.forward_features"
    /\ call.result = "ok"
    /\ call.masked
    /\ module.use_cls_token
    /\ module.depth >= 2

\* C29 (as stated): in a stack of two or more RAttention blocks with a
\* causal mask and use_cls_token=True the output of patch token i after
\* the last block depends only on the input patch tokens the mask makes
\* visible to i (token 0 is the class token).
Cex_C29 ==
    CausalStack =>
        \A i \in 1..(call.N - 1) :
            call.deps[i] \subseteq
                {0} \cup { j \in 1..(call.N - 1) : call.mask.at[i][j] = Zero }

\* A forward call of GSAttention added its grouped causal mask on a square
\* grid whose side is a multiple of sr_ratio.
SquareGroupedCall ==
    /\ call.op = "GSAttention.forward"
    /\ call.result = "ok"
    /\ call.masked
    /\ call.H = call.W
    /\ call.H % module.sr_ratio = 0

\* C30 (as stated): in the grouped causal mask of GSAttention on a square
\* grid H = W divisible by sr_ratio, every query i at (row, col) =
\* (i div W, i mod W) sees the reduced key of its own sr_ratio x sr_ratio
\* block, reduced index (row div sr_ratio) * (W / sr_ratio)
\* + (col div sr_ratio).
Cex_C30 ==
    SquareGroupedCall =>
        LET sr == module.sr_ratio
            W == call.W
        IN  \A i \in 0..(call.N - 1) :
               LET row == i \div W
                   col == i % W
                   own == (row \div sr) * (W \div sr) + (col \div sr)
               IN  call.mask.at[i][own] = Zero

====
